---- MODULE Spec2Model ----
(***************************************************************************)
(* Model of pretty-photos/order_photos.py: parse_photo_times,              *)
(* interpolate_photo_times and save_photos_with_times, with the string and *)
(* time conversions they rely on.                                          *)
(*                                                                         *)
(* A Python str is a sequence of one-character strings; None is the        *)
(* one-element sequence <<"None">>, which no str equals.                   *)
(***************************************************************************)
EXTENDS Integers, Sequences, FiniteSets, TLC

VARIABLES
    tz,                 \* UTC offset of the process's local time zone, in seconds
    listing,            \* input_dir.iterdir(): the directory entries, in listing order
    pc,                 \* position of main()
    parse_ind,          \* parse_photo_times: index of the next directory entry
    photo_times,        \* the registry: path -> time string or None
    num_dates_found,
    num_dates_missing,
    photo_ind,          \* interpolate_photo_times: index into sorted_photos
    num_interpolated,
    num_failed,
    log,                \* the INTERPOLATE lines written to the logger
    pass,               \* how many times interpolate_photo_times has been entered
    first_pass,         \* the registry returned by the first interpolation
    save_ind,           \* save_photos_with_times: index of the next registry item
    copies,             \* the copy_file calls made so far
    arg,                \* argument of the pure function under test
    result              \* its result

vars == <<tz, listing, pc, parse_ind, photo_times, num_dates_found,
          num_dates_missing, photo_ind, num_interpolated, num_failed, log,
          pass, first_pass, save_ind, copies, arg, result>>

-----------------------------------------------------------------------------
(* Bounds *)

\* the known creation times lie within MaxSpan seconds of each other
MaxSpan == 9
\* local time is at most MaxTzOffset seconds east or west of UTC
MaxTzOffset == 3
\* file name stems under test are built from at most MaxTokens tokens
MaxTokens == 3
\* timestamps under test are the first MaxTicks seconds after the base time
MaxTicks == 60

-----------------------------------------------------------------------------
(* Python str primitives *)

None == <<"None">>

Digits == <<"0", "1", "2", "3", "4", "5", "6", "7", "8", "9">>

IsDigit(c) == \E i \in 1..10 : Digits[i] = c

DigitVal(c) == (CHOOSE i \in 1..10 : Digits[i] = c) - 1

\* code points of the characters that occur in the modelled file names
Ord(c) ==
    CASE c = " " -> 32
      [] c = "+" -> 43
      [] c = "-" -> 45
      [] c = "." -> 46
      [] IsDigit(c) -> 48 + DigitVal(c)
      [] c = ":" -> 58
      [] c = "G" -> 71
      [] c = "I" -> 73
      [] c = "M" -> 77
      [] c = "_" -> 95
      [] c = "c" -> 99
      [] c = "e" -> 101
      [] c = "g" -> 103
      [] c = "j" -> 106
      [] c = "m" -> 109
      [] c = "n" -> 110
      [] c = "o" -> 111
      [] c = "p" -> 112
      [] c = "s" -> 115
      [] c = "t" -> 116
      [] c = "v" -> 118
      [] c = "x" -> 120
      [] OTHER -> 127

\* str.__lt__: lexicographic by code point
RECURSIVE StrLess(_, _)
StrLess(a, b) ==
    IF b = <<>> THEN FALSE
    ELSE IF a = <<>> THEN TRUE
    ELSE IF Head(a) = Head(b) THEN StrLess(Tail(a), Tail(b))
    ELSE Ord(Head(a)) < Ord(Head(b))

\* s[i:] with a 0-based Python index i
From(s, i) == SubSeq(s, i + 1, Len(s))

\* s[:i]
UpTo(s, i) == SubSeq(s, 1, IF i < Len(s) THEN i ELSE Len(s))

StartsWith(s, p) == Len(p) <= Len(s) /\ SubSeq(s, 1, Len(p)) = p

EndsWith(s, p) == Len(p) <= Len(s) /\ SubSeq(s, Len(s) - Len(p) + 1, Len(s)) = p

\* str.split(sep): the parts between the non-overlapping occurrences of sep
RECURSIVE Split(_, _)
Split(s, sep) ==
    LET hits == {i \in 1..(Len(s) - Len(sep) + 1) : SubSeq(s, i, i + Len(sep) - 1) = sep}
    IN  IF hits = {} THEN <<s>>
        ELSE LET i == CHOOSE h \in hits : \A k \in hits : h <= k
             IN  <<SubSeq(s, 1, i - 1)>> \o Split(From(s, i - 1 + Len(sep)), sep)

\* str.replace(a, b) for one-character a and b
Replace(s, a, b) == [i \in 1..Len(s) |-> IF s[i] = a THEN b ELSE s[i]]

\* str.strip() of blanks
RECURSIVE Strip(_)
Strip(s) ==
    IF s = <<>> THEN s
    ELSE IF Head(s) = " " THEN Strip(Tail(s))
    ELSE IF s[Len(s)] = " " THEN Strip(SubSeq(s, 1, Len(s) - 1))
    ELSE s

\* int(s) succeeds: blanks around, an optional sign, then digits with single
\* underscores between them; anything else raises ValueError
IntParses(s) ==
    LET t == Strip(s)
        body == IF t # <<>> /\ Head(t) \in {"+", "-"} THEN Tail(t) ELSE t
    IN  /\ body # <<>>
        /\ \A i \in 1..Len(body) :
              \/ IsDigit(body[i])
              \/ /\ body[i] = "_"
                 /\ 1 < i
                 /\ i < Len(body)
                 /\ IsDigit(body[i - 1])
                 /\ IsDigit(body[i + 1])

\* the value of a string of digits
RECURSIVE ToInt(_)
ToInt(s) ==
    IF s = <<>> THEN 0 ELSE 10 * ToInt(SubSeq(s, 1, Len(s) - 1)) + DigitVal(s[Len(s)])

\* n as w zero-padded digits
RECURSIVE Pad(_, _)
Pad(n, w) ==
    IF w = 0 THEN <<>> ELSE Pad(n \div 10, w - 1) \o <<Digits[(n % 10) + 1]>>

-----------------------------------------------------------------------------
(* Module constants of order_photos.py *)

_PHOTO_EXTENSIONS ==
    { <<"J", "P", "G">>, <<"j", "p", "g">>, <<"J", "P", "E", "G">>,
      <<"j", "p", "e", "g">>, <<"P", "N", "G">>, <<"p", "n", "g">> }

_VIDEO_EXTENSIONS == { <<"M", "O", "V">>, <<"m", "o", "v">> }

_DATE_SPLIT_CHAR == "-"

_DATE_TIME_SPLIT_CHAR == "_"

_COMMON_INTERPOLATION_PREFIX == <<"I", "M", "G", "_">>

_INTERPOLATED_SUFFIX ==
    <<"_", "i", "n", "t", "e", "r", "p", "o", "l", "a", "t", "e", "d",
      "_", "t", "i", "m", "e">>

_SPLIT_INTO_YEARS == TRUE

-----------------------------------------------------------------------------
(* datetime: the proleptic Gregorian calendar and the conversions used *)

IsLeap(y) == (y % 4 = 0 /\ y % 100 # 0) \/ y % 400 = 0

DaysInMonth(y, m) ==
    IF m = 2 THEN (IF IsLeap(y) THEN 29 ELSE 28)
    ELSE IF m \in {4, 6, 9, 11} THEN 30 ELSE 31

\* days from 1970-01-01 to y-m-d
DaysFromCivil(y, m, d) ==
    LET yy  == IF m <= 2 THEN y - 1 ELSE y
        era == yy \div 400
        yoe == yy - era * 400
        mp  == IF m > 2 THEN m - 3 ELSE m + 9
        doy == (153 * mp + 2) \div 5 + d - 1
        doe == yoe * 365 + yoe \div 4 - yoe \div 100 + doy
    IN  era * 146097 + doe - 719468

\* the date that lies z days after 1970-01-01
CivilFromDays(z) ==
    LET zz  == z + 719468
        era == zz \div 146097
        doe == zz - era * 146097
        yoe == (doe - doe \div 1460 + doe \div 36524 - doe \div 146096) \div 365
        doy == doe - (365 * yoe + yoe \div 4 - yoe \div 100)
        mp  == (5 * doy + 2) \div 153
        d   == doy - (153 * mp + 2) \div 5 + 1
        m   == IF mp < 10 THEN mp + 3 ELSE mp - 9
        y   == yoe + era * 400 + (IF m <= 2 THEN 1 ELSE 0)
    IN  [year |-> y, month |-> m, day |-> d]

\* datetime.strptime(s, _FILE_TIME_FMT) returns (rather than raising ValueError):
\* the text has the layout YYYY-MM-DD_HH:MM:SS, names a real date and time, and
\* nothing follows it
CanStrptime(s) ==
    /\ Len(s) = 19
    /\ s[5] = "-" /\ s[8] = "-" /\ s[11] = "_" /\ s[14] = ":" /\ s[17] = ":"
    /\ \A i \in (1..19) \ {5, 8, 11, 14, 17} : IsDigit(s[i])
    /\ LET y  == ToInt(SubSeq(s, 1, 4))
           m  == ToInt(SubSeq(s, 6, 7))
           d  == ToInt(SubSeq(s, 9, 10))
       IN  /\ y >= 1
           /\ m \in 1..12
           /\ d \in 1..DaysInMonth(y, m)
           /\ ToInt(SubSeq(s, 12, 13)) \in 0..23
           /\ ToInt(SubSeq(s, 15, 16)) \in 0..59
           /\ ToInt(SubSeq(s, 18, 19)) \in 0..59

\* datetime.strptime(s, _FILE_TIME_FMT): a naive datetime
Strptime(s) ==
    [year   |-> ToInt(SubSeq(s, 1, 4)),
     month  |-> ToInt(SubSeq(s, 6, 7)),
     day    |-> ToInt(SubSeq(s, 9, 10)),
     hour   |-> ToInt(SubSeq(s, 12, 13)),
     minute |-> ToInt(SubSeq(s, 15, 16)),
     second |-> ToInt(SubSeq(s, 18, 19))]

\* datetime.strftime(_FILE_TIME_FMT)
Strftime(d) ==
    Pad(d.year, 4) \o <<_DATE_SPLIT_CHAR>> \o Pad(d.month, 2) \o <<_DATE_SPLIT_CHAR>>
        \o Pad(d.day, 2) \o <<_DATE_TIME_SPLIT_CHAR>> \o Pad(d.hour, 2) \o <<":">>
        \o Pad(d.minute, 2) \o <<":">> \o Pad(d.second, 2)

\* seconds from 1970-01-01 00:00:00 to the wall-clock reading d
WallSeconds(d) ==
    DaysFromCivil(d.year, d.month, d.day) * 86400
        + d.hour * 3600 + d.minute * 60 + d.second

\* int(naive.timestamp()): a naive datetime is read as LOCAL time
Timestamp(d) == WallSeconds(d) - tz

\* datetime.utcfromtimestamp(t): the naive UTC reading of t
UtcFromTimestamp(t) ==
    LET days == t \div 86400
        rem  == t % 86400
        date == CivilFromDays(days)
    IN  [year   |-> date.year,
         month  |-> date.month,
         day    |-> date.day,
         hour   |-> rem \div 3600,
         minute |-> (rem % 3600) \div 60,
         second |-> rem % 60]

-----------------------------------------------------------------------------
(* pathlib and utils.py *)

\* 1-based position of the last "." of a file name that starts a suffix, else 0
SuffixDot(name) ==
    LET dots == {i \in 2..(Len(name) - 1) : name[i] = "."}
    IN  IF dots = {} THEN 0 ELSE CHOOSE i \in dots : \A k \in dots : k <= i

\* Path.stem
PathStem(path) ==
    IF SuffixDot(path) = 0 THEN path ELSE SubSeq(path, 1, SuffixDot(path) - 1)

\* path.suffix[1:]
get_extension_from_path(path) ==
    IF SuffixDot(path) = 0 THEN <<>> ELSE From(path, SuffixDot(path))

\* str(n) for n >= 0
RECURSIVE Str(_)
Str(n) == IF n < 10 THEN <<Digits[n + 1]>> ELSE Str(n \div 10) \o <<Digits[(n % 10) + 1]>>

\* sorted(paths): ascending by the path's text
RECURSIVE Sorted(_)
Sorted(S) ==
    IF S = {} THEN <<>>
    ELSE LET least == CHOOSE p \in S : \A q \in S \ {p} : StrLess(p, q)
         IN  <<least>> \o Sorted(S \ {least})

-----------------------------------------------------------------------------
(* order_photos.py: the helpers of the interpolation *)

\* is_valid_for_interpolation without the int() conversion
is_valid_for_interpolation_no_int(photo_path) ==
    Len(Split(PathStem(photo_path), _COMMON_INTERPOLATION_PREFIX)) >= 2

\* IndexError when the prefix does not occur, ValueError when the text after
\* its first occurrence, up to the next ".", is not an integer literal
is_valid_for_interpolation(photo_path) ==
    LET parts == Split(PathStem(photo_path), _COMMON_INTERPOLATION_PREFIX)
    IN  IF Len(parts) < 2 THEN FALSE
        ELSE IntParses(Split(parts[2], <<".">>)[1])

\* int(dt.datetime.strptime(time, _FILE_TIME_FMT).timestamp())
ParseTimestamp(time) == Timestamp(Strptime(time))

\* dt.datetime.utcfromtimestamp(ts).strftime(_FILE_TIME_FMT)
FormatTimestamp(ts) == Strftime(UtcFromTimestamp(ts))

\* the values random.randint(a, b) can return; none: it raises ValueError
RandInt(a, b) == a..b

\* get_random_time_between drawing from randint(min_ts + 1, max_ts)
get_random_time_between_late(min_time, max_time) ==
    IF ~CanStrptime(min_time) \/ ~CanStrptime(max_time) THEN {}
    ELSE LET min_ts == ParseTimestamp(min_time) + 1
             max_ts == ParseTimestamp(max_time) - 1
         IN  IF max_ts < min_ts THEN {}
             ELSE {FormatTimestamp(t) : t \in RandInt(min_ts + 1, max_ts)}

\* get_random_time_between drawing from randint(min_ts, max_ts - 1)
get_random_time_between_early(min_time, max_time) ==
    IF ~CanStrptime(min_time) \/ ~CanStrptime(max_time) THEN {}
    ELSE LET min_ts == ParseTimestamp(min_time) + 1
             max_ts == ParseTimestamp(max_time) - 1
         IN  IF max_ts < min_ts THEN {}
             ELSE {FormatTimestamp(t) : t \in RandInt(min_ts, max_ts - 1)}

\* The strings get_random_time_between can return.  The empty set stands for
\* ValueError: raised by strptime, by the explicit check, or by randint on an
\* empty range.
get_random_time_between(min_time, max_time) ==
    IF ~CanStrptime(min_time) \/ ~CanStrptime(max_time) THEN {}
    ELSE LET min_ts == ParseTimestamp(min_time) + 1
             max_ts == ParseTimestamp(max_time) - 1
         IN  IF max_ts < min_ts THEN {}
             ELSE {FormatTimestamp(t) : t \in RandInt(min_ts + 1, max_ts - 1)}

\* get_year_from_time returns (rather than raising ValueError)
CanGetYear(time) == CanStrptime(time)

\* get_year_from_time reading the year of the UTC time instead of the text
get_year_from_time_utc(time) == UtcFromTimestamp(Timestamp(Strptime(time))).year

get_year_from_time(time) == Strptime(time).year

try_remove_interpolated_suffix(time) ==
    IF ~EndsWith(time, _INTERPOLATED_SUFFIX) THEN time
    ELSE Split(time, _INTERPOLATED_SUFFIX)[1]

\* the test "photo_time is not None" taking an interpolated time for a missing one
HasTime_known_only(photo_time) ==
    photo_time # None /\ ~EndsWith(photo_time, _INTERPOLATED_SUFFIX)

\* "photo_time is not None"
HasTime(photo_time) == photo_time # None

\* the backward scan for prev_time, over sorted_photos[j], sorted_photos[j-1], ...
RECURSIVE ScanPrev(_, _, _)
ScanPrev(times, sorted_photos, j) ==
    IF j < 1 THEN None
    ELSE IF ~is_valid_for_interpolation(sorted_photos[j])
         THEN ScanPrev(times, sorted_photos, j - 1)
    ELSE IF times[sorted_photos[j]] # None THEN times[sorted_photos[j]]
    ELSE ScanPrev(times, sorted_photos, j - 1)

\* the forward scan for next_time, over sorted_photos[j], sorted_photos[j+1], ...
RECURSIVE ScanNext(_, _, _)
ScanNext(times, sorted_photos, j) ==
    IF j > Len(sorted_photos) THEN None
    ELSE IF ~is_valid_for_interpolation(sorted_photos[j])
         THEN ScanNext(times, sorted_photos, j + 1)
    ELSE IF times[sorted_photos[j]] # None THEN times[sorted_photos[j]]
    ELSE ScanNext(times, sorted_photos, j + 1)

-----------------------------------------------------------------------------
(* The input directory *)

JPG == <<".", "j", "p", "g">>

IMG_1 == <<"I", "M", "G", "_", "1">> \o JPG
IMG_2 == <<"I", "M", "G", "_", "2">> \o JPG
IMG_2x == <<"I", "M", "G", "_", "2", "x">> \o JPG
IMG_3 == <<"I", "M", "G", "_", "3">> \o JPG
IMG_4 == <<"I", "M", "G", "_", "4", ".", "m", "o", "v">>
Notes == <<"n", "o", "t", "e", "s", ".", "t", "x", "t">>
SubDir == <<"s", "e", "t">>

\* the earliest creation time of the input: 2020-12-31 23:59:57
BaseTime ==
    [year |-> 2020, month |-> 12, day |-> 31, hour |-> 23, minute |-> 59, second |-> 57]

BaseTs == WallSeconds(BaseTime)

\* the creation times the metadata can hold, in seconds after BaseTime
KnownSecs == {0, 3, MaxSpan}

\* the wall-clock reading k seconds after BaseTime
Reading(k) == UtcFromTimestamp(BaseTs + k)

\* EXIF DateTimeOriginal (tag 36867): "YYYY:MM:DD HH:MM:SS"
ExifText(k) ==
    LET d == Reading(k)
    IN  Pad(d.year, 4) \o <<":">> \o Pad(d.month, 2) \o <<":">> \o Pad(d.day, 2)
            \o <<" ">> \o Pad(d.hour, 2) \o <<":">> \o Pad(d.minute, 2)
            \o <<":">> \o Pad(d.second, 2)

\* the creation_time tag of a video stream: "YYYY-MM-DDTHH:MM:SS.000000Z"
VideoText(k) ==
    LET d == Reading(k)
    IN  Pad(d.year, 4) \o <<"-">> \o Pad(d.month, 2) \o <<"-">> \o Pad(d.day, 2)
            \o <<"T">> \o Pad(d.hour, 2) \o <<":">> \o Pad(d.minute, 2)
            \o <<":">> \o Pad(d.second, 2)
            \o <<".", "0", "0", "0", "0", "0", "0", "Z">>

\* what the metadata readers can raise
KeyError == <<"KeyError">>
TypeError == <<"TypeError">>
OSError == <<"OSError">>
FfmpegError == <<"ffmpeg.Error">>
Errors == {KeyError, TypeError, OSError, FfmpegError}

Entry(name, is_file, meta) == [name |-> name, is_file |-> is_file, meta |-> meta]

\* the directories the program is run on: the same seven entries, each media
\* file with every outcome of reading its metadata
Listings ==
    { << Entry(IMG_3, TRUE, m3), Entry(SubDir, FALSE, None), Entry(IMG_1, TRUE, m1),
         Entry(Notes, TRUE, None), Entry(IMG_4, TRUE, m4), Entry(IMG_2x, TRUE, mx),
         Entry(IMG_2, TRUE, m2) >> :
        m1 \in {ExifText(k) : k \in KnownSecs} \cup {KeyError},
        m2 \in {ExifText(k) : k \in KnownSecs} \cup {KeyError, TypeError},
        mx \in {ExifText(3), TypeError, OSError},
        m3 \in {ExifText(k) : k \in KnownSecs} \cup {KeyError, TypeError},
        m4 \in {VideoText(k) : k \in KnownSecs} \cup {FfmpegError} }

TzOffsets == {0 - MaxTzOffset, 0, MaxTzOffset}

EmptyRegistry == [p \in {} |-> None]

-----------------------------------------------------------------------------
(* main(): parse_photo_times, interpolate_photo_times, save_photos_with_times *)

Init ==
    /\ tz \in TzOffsets
    /\ listing \in Listings
    /\ pc = "parse"
    /\ parse_ind = 1
    /\ photo_times = EmptyRegistry
    /\ num_dates_found = 0
    /\ num_dates_missing = 0
    /\ photo_ind = 1
    /\ num_interpolated = 0
    /\ num_failed = 0
    /\ log = <<>>
    /\ pass = 0
    /\ first_pass = EmptyRegistry
    /\ save_ind = 1
    /\ copies = {}
    /\ arg = None
    /\ result = None

\* get_photo_creation_time(path) as normalised by parse_photo_times
NormalisePhotoTime(raw) ==
    Replace(Replace(UpTo(raw, 10), ":", _DATE_SPLIT_CHAR) \o From(raw, 10),
            " ", _DATE_TIME_SPLIT_CHAR)

\* get_video_creation_time(path) as normalised by parse_photo_times
NormaliseVideoTime(raw) == Replace(UpTo(raw, 19), "T", _DATE_TIME_SPLIT_CHAR)

\* "except KeyError"
PhotoErrorCaught_key_only(err) == err = KeyError

\* "except (KeyError, TypeError)"
PhotoErrorCaught(err) == err \in {KeyError, TypeError}

\* photo_times[photo_path] = photo_time
Store(times, photo_path, photo_time) ==
    [p \in (DOMAIN times) \cup {photo_path} |->
        IF p = photo_path THEN photo_time ELSE times[p]]

\* an exception leaves main(): the process ends and its registry is gone
Abort ==
    /\ pc' = "aborted"
    /\ photo_times' = EmptyRegistry

\* one iteration of the loop over input_dir.iterdir()
ParseStep ==
    /\ pc = "parse"
    /\ parse_ind <= Len(listing)
    /\ LET e == listing[parse_ind]
           photo_path == e.name
           photo_ext == get_extension_from_path(photo_path)
       IN  IF ~e.is_file THEN
               UNCHANGED <<pc, photo_times, num_dates_found, num_dates_missing>>
           ELSE IF photo_ext \in _PHOTO_EXTENSIONS THEN
               IF e.meta \notin Errors THEN
                   /\ photo_times' = Store(photo_times, photo_path, NormalisePhotoTime(e.meta))
                   /\ num_dates_found' = num_dates_found + 1
                   /\ UNCHANGED <<pc, num_dates_missing>>
               ELSE IF PhotoErrorCaught(e.meta) THEN
                   /\ photo_times' = Store(photo_times, photo_path, None)
                   /\ num_dates_missing' = num_dates_missing + 1
                   /\ UNCHANGED <<pc, num_dates_found>>
               ELSE
                   /\ Abort
                   /\ UNCHANGED <<num_dates_found, num_dates_missing>>
           ELSE IF photo_ext \in _VIDEO_EXTENSIONS THEN
               IF e.meta \notin Errors THEN
                   /\ photo_times' = Store(photo_times, photo_path, NormaliseVideoTime(e.meta))
                   /\ UNCHANGED <<pc, num_dates_found, num_dates_missing>>
               ELSE
                   /\ Abort
                   /\ UNCHANGED <<num_dates_found, num_dates_missing>>
           ELSE
               UNCHANGED <<pc, photo_times, num_dates_found, num_dates_missing>>
    /\ parse_ind' = parse_ind + 1
    /\ UNCHANGED <<tz, listing, photo_ind, num_interpolated, num_failed, log, pass,
                   first_pass, save_ind, copies, arg, result>>

\* parse_photo_times returns and main() calls interpolate_photo_times
ParseReturn ==
    /\ pc = "parse"
    /\ parse_ind > Len(listing)
    /\ pc' = "interpolate"
    /\ pass' = 1
    /\ photo_ind' = 1
    /\ num_interpolated' = 0
    /\ num_failed' = 0
    /\ UNCHANGED <<tz, listing, parse_ind, photo_times, num_dates_found,
                   num_dates_missing, log, first_pass, save_ind, copies, arg, result>>

sorted_photos == Sorted(DOMAIN photo_times)

LogLine(photo_path, event, min_time, max_time, photo_time) ==
    [photo |-> photo_path, event |-> event, min_time |-> min_time,
     max_time |-> max_time, time |-> photo_time]

\* one iteration of the loop over enumerate(sorted_photos)
InterpolateStep ==
    /\ pc = "interpolate"
    /\ photo_ind <= Len(sorted_photos)
    /\ LET photo_path == sorted_photos[photo_ind]
           photo_time == photo_times[photo_path]
           prev_time == ScanPrev(photo_times, sorted_photos, photo_ind - 1)
           next_time == ScanNext(photo_times, sorted_photos, photo_ind + 1)
           min_time == try_remove_interpolated_suffix(prev_time)
       IN  IF HasTime(photo_time) THEN
               UNCHANGED <<photo_times, num_interpolated, num_failed, log>>
           ELSE IF ~is_valid_for_interpolation(photo_path) THEN
               /\ log' = Append(log, LogLine(photo_path, "skip", None, None, None))
               /\ UNCHANGED <<photo_times, num_interpolated, num_failed>>
           ELSE IF prev_time = None THEN
               /\ log' = Append(log, LogLine(photo_path, "no_prev", None, None, None))
               /\ num_failed' = num_failed + 1
               /\ UNCHANGED <<photo_times, num_interpolated>>
           ELSE IF next_time = None THEN
               /\ log' = Append(log, LogLine(photo_path, "no_next", None, None, None))
               /\ num_failed' = num_failed + 1
               /\ UNCHANGED <<photo_times, num_interpolated>>
           ELSE IF get_random_time_between(min_time, next_time) = {} THEN
               /\ log' = Append(log, LogLine(photo_path, "no_time", min_time, next_time, None))
               /\ num_failed' = num_failed + 1
               /\ UNCHANGED <<photo_times, num_interpolated>>
           ELSE
               \E new_time \in get_random_time_between(min_time, next_time) :
                   /\ photo_times' =
                          Store(photo_times, photo_path, new_time \o _INTERPOLATED_SUFFIX)
                   /\ num_interpolated' = num_interpolated + 1
                   /\ log' = Append(log, LogLine(photo_path, "set", min_time, next_time, new_time))
                   /\ UNCHANGED num_failed
    /\ photo_ind' = photo_ind + 1
    /\ UNCHANGED <<tz, listing, pc, parse_ind, num_dates_found, num_dates_missing,
                   pass, first_pass, save_ind, copies, arg, result>>

\* interpolate_photo_times returns and main() calls save_photos_with_times
InterpolateReturn ==
    /\ pc = "interpolate"
    /\ photo_ind > Len(sorted_photos)
    /\ pc' = "save"
    /\ save_ind' = 1
    /\ UNCHANGED <<tz, listing, parse_ind, photo_times, num_dates_found,
                   num_dates_missing, photo_ind, num_interpolated, num_failed, log,
                   pass, first_pass, copies, arg, result>>

\* photo_times.items(): the registry in insertion order
RECURSIVE Items(_)
Items(i) ==
    IF i > Len(listing) THEN <<>>
    ELSE IF listing[i].name \in DOMAIN photo_times THEN <<listing[i].name>> \o Items(i + 1)
    ELSE Items(i + 1)

WithoutTime == <<"w", "i", "t", "h", "o", "u", "t", "-", "t", "i", "m", "e">>

\* a call copy_file(src, output_dir / dir... / name)
Copy(src, dir, name) == [src |-> src, dir |-> dir, name |-> name]

\* the destination save_photos_with_times computes for a registry item whose
\* year, if it has a time, can be extracted
Destination(photo_path, photo_time) ==
    LET photo_ext == get_extension_from_path(photo_path)
    IN  IF photo_time # None THEN
            Copy(photo_path,
                 IF _SPLIT_INTO_YEARS
                 THEN <<Str(get_year_from_time(try_remove_interpolated_suffix(photo_time)))>>
                 ELSE <<>>,
                 photo_time \o <<".">> \o photo_ext)
        ELSE
            Copy(photo_path, <<WithoutTime>>, PathStem(photo_path) \o <<".">> \o photo_ext)

\* one iteration of the loop over photo_times.items()
SaveStep ==
    /\ pc = "save"
    /\ save_ind <= Len(Items(1))
    /\ LET photo_path == Items(1)[save_ind]
           photo_time == photo_times[photo_path]
       IN  IF /\ photo_time # None
              /\ _SPLIT_INTO_YEARS
              /\ ~CanGetYear(try_remove_interpolated_suffix(photo_time))
           THEN
               /\ Abort
               /\ UNCHANGED copies
           ELSE
               /\ copies' = copies \cup {Destination(photo_path, photo_time)}
               /\ UNCHANGED <<pc, photo_times>>
    /\ save_ind' = save_ind + 1
    /\ UNCHANGED <<tz, listing, parse_ind, num_dates_found, num_dates_missing,
                   photo_ind, num_interpolated, num_failed, log, pass, first_pass,
                   arg, result>>

\* save_photos_with_times and main() return
SaveReturn ==
    /\ pc = "save"
    /\ save_ind > Len(Items(1))
    /\ pc' = "done"
    /\ UNCHANGED <<tz, listing, parse_ind, photo_times, num_dates_found,
                   num_dates_missing, photo_ind, num_interpolated, num_failed, log,
                   pass, first_pass, save_ind, copies, arg, result>>

Next == ParseStep \/ ParseReturn \/ InterpolateStep \/ InterpolateReturn
            \/ SaveStep \/ SaveReturn

Spec == Init /\ [][Next]_vars

-----------------------------------------------------------------------------
(* A caller that runs interpolate_photo_times on its own result *)

\* interpolate_photo_times(interpolate_photo_times(photo_times)): the second call
Reinterpolate ==
    /\ pc = "interpolate"
    /\ photo_ind > Len(sorted_photos)
    /\ pass = 1
    /\ first_pass' = photo_times
    /\ pass' = 2
    /\ photo_ind' = 1
    /\ num_interpolated' = 0
    /\ num_failed' = 0
    /\ UNCHANGED <<tz, listing, pc, parse_ind, photo_times, num_dates_found,
                   num_dates_missing, log, save_ind, copies, arg, result>>

NextTwice == Next \/ Reinterpolate

SpecTwice == Init /\ [][NextTwice]_vars

-----------------------------------------------------------------------------
(* The conversions of get_random_time_between, applied to one timestamp *)

InitTime ==
    /\ tz \in TzOffsets
    /\ arg \in BaseTs..(BaseTs + MaxTicks)
    /\ result = None
    /\ pc = "call"
    /\ listing = <<>>
    /\ parse_ind = 1
    /\ photo_times = EmptyRegistry
    /\ num_dates_found = 0
    /\ num_dates_missing = 0
    /\ photo_ind = 1
    /\ num_interpolated = 0
    /\ num_failed = 0
    /\ log = <<>>
    /\ pass = 0
    /\ first_pass = EmptyRegistry
    /\ save_ind = 1
    /\ copies = {}

\* the timestamp is stored as a string and read back as a neighbour's time
RoundTrip ==
    /\ pc = "call"
    /\ result' = ParseTimestamp(FormatTimestamp(arg))
    /\ pc' = "returned"
    /\ UNCHANGED <<tz, listing, parse_ind, photo_times, num_dates_found,
                   num_dates_missing, photo_ind, num_interpolated, num_failed, log,
                   pass, first_pass, save_ind, copies, arg>>

SpecTime == InitTime /\ [][RoundTrip]_vars

-----------------------------------------------------------------------------
(* is_valid_for_interpolation, applied to one path *)

Tokens == { _COMMON_INTERPOLATION_PREFIX, <<"7">>, <<"x">>, <<".">>, <<"_">>, <<"+">> }

\* the texts made of at most n tokens
RECURSIVE Texts(_)
Texts(n) ==
    IF n = 0 THEN {<<>>}
    ELSE {<<>>} \cup {a \o t : a \in Texts(n - 1), t \in Tokens}

InitValid ==
    /\ tz = 0
    /\ arg \in {stem \o JPG : stem \in Texts(MaxTokens) \ {<<>>}}
    /\ result = None
    /\ pc = "call"
    /\ listing = <<>>
    /\ parse_ind = 1
    /\ photo_times = EmptyRegistry
    /\ num_dates_found = 0
    /\ num_dates_missing = 0
    /\ photo_ind = 1
    /\ num_interpolated = 0
    /\ num_failed = 0
    /\ log = <<>>
    /\ pass = 0
    /\ first_pass = EmptyRegistry
    /\ save_ind = 1
    /\ copies = {}

CheckValid ==
    /\ pc = "call"
    /\ result' = is_valid_for_interpolation(arg)
    /\ pc' = "returned"
    /\ UNCHANGED <<tz, listing, parse_ind, photo_times, num_dates_found,
                   num_dates_missing, photo_ind, num_interpolated, num_failed, log,
                   pass, first_pass, save_ind, copies, arg>>

SpecValid == InitValid /\ [][CheckValid]_vars

-----------------------------------------------------------------------------
(* Vocabulary of the properties *)

\* the position of the first element of s that satisfies no smaller one
Least(S) == CHOOSE i \in S : \A k \in S : i <= k

Greatest(S) == CHOOSE i \in S : \A k \in S : k <= i

\* the path fails the eligibility test: the prefix does not occur in the stem,
\* or the text after its first occurrence, cut at the next "." or the next
\* occurrence of the prefix, is not an integer literal
FailsValidity(path) ==
    LET stem == PathStem(path)
        n    == Len(_COMMON_INTERPOLATION_PREFIX)
        IsPrefixAt(t, i) ==
            i + n - 1 <= Len(t) /\ SubSeq(t, i, i + n - 1) = _COMMON_INTERPOLATION_PREFIX
        occ  == {i \in 1..Len(stem) : IsPrefixAt(stem, i)}
    IN  \/ occ = {}
        \/ LET rest  == SubSeq(stem, Least(occ) + n, Len(stem))
               stops == {k \in 1..Len(rest) : rest[k] = "." \/ IsPrefixAt(rest, k)}
               seg   == IF stops = {} THEN rest ELSE SubSeq(rest, 1, Least(stops) - 1)
           IN  ~IntParses(seg)

Eligible(path) == ~FailsValidity(path)

IsInterpolated(time) == time # None /\ EndsWith(time, _INTERPOLATED_SUFFIX)

IsKnown(time) == time # None /\ ~EndsWith(time, _INTERPOLATED_SUFFIX)

\* the canonical text YYYY-MM-DD_HH:MM:SS at the head of a stored time
Canonical(time) == UpTo(time, 19)

\* the timestamp of a stored time, read the way a neighbour's time is read
Ts(time) == ParseTimestamp(Canonical(time))

\* the wall-clock value of a stored time, by which canonical times are ordered
Wall(time) == WallSeconds(Strptime(Canonical(time)))

\* position in sorted_photos of the nearest eligible file with a time before
\* position i (0: there is none)
NearestBefore(times, i) ==
    LET c == {j \in 1..(i - 1) :
                 Eligible(sorted_photos[j]) /\ times[sorted_photos[j]] # None}
    IN  IF c = {} THEN 0 ELSE Greatest(c)

\* the same after position i
NearestAfter(times, i) ==
    LET c == {j \in (i + 1)..Len(sorted_photos) :
                 Eligible(sorted_photos[j]) /\ times[sorted_photos[j]] # None}
    IN  IF c = {} THEN 0 ELSE Least(c)

\* the interpolation loop is about to handle a file
Stepping == pc = "interpolate" /\ photo_ind <= Len(sorted_photos)

Cur == sorted_photos[photo_ind]

PrevOfCur == photo_times[sorted_photos[NearestBefore(photo_times, photo_ind)]]

NextOfCur == photo_times[sorted_photos[NearestAfter(photo_times, photo_ind)]]

\* the step handles an eligible file without a time
Candidate == Stepping /\ photo_times[Cur] = None /\ Eligible(Cur)

\* the step handles a file without a time and gives it one
Fills == Stepping /\ photo_times[Cur] = None /\ photo_times'[Cur] # None

-----------------------------------------------------------------------------
(* Properties *)

\* C1: every time that interpolate_photo_times fills in, read back the way the
\* neighbours' times are read, lies between the nearest eligible timed file
\* before it and the nearest one after it, two seconds clear of each:
\* prevTs + 2 <= interpolatedTs <= nextTs - 2.
C1_InterpolatedBetweenNeighbours ==
    [][ Fills =>
          /\ NearestBefore(photo_times, photo_ind) # 0
          /\ NearestAfter(photo_times, photo_ind) # 0
          /\ Ts(PrevOfCur) + 2 <= Ts(photo_times'[Cur])
          /\ Ts(photo_times'[Cur]) <= Ts(NextOfCur) - 2 ]_vars

\* C2: no step of interpolate_photo_times gives a time to a file that fails the
\* eligibility test and has none, whatever surrounds it.
C2_IneligibleStaysAbsent ==
    [][ pc = "interpolate" =>
          \A p \in DOMAIN photo_times :
              (FailsValidity(p) /\ photo_times[p] = None)
                  => (p \in DOMAIN photo_times' /\ photo_times'[p] = None) ]_vars

\* C2 witness: interpolation has run, and the ineligible file without a time
\* that sorts between two eligible files with known times still has none
C2_Witness ==
    /\ pc = "save"
    /\ FailsValidity(IMG_2x) /\ photo_times[IMG_2x] = None
    /\ Eligible(IMG_2) /\ IsKnown(photo_times[IMG_2])
    /\ Eligible(IMG_3) /\ IsKnown(photo_times[IMG_3])
    /\ sorted_photos[NearestBefore(photo_times, 3)] = IMG_2
    /\ sorted_photos[3] = IMG_2x
    /\ sorted_photos[NearestAfter(photo_times, 3)] = IMG_3

\* C3: the second run of interpolate_photo_times on the result of the first
\* changes no entry, at any step.
C3_Idempotent == pass = 2 => photo_times = first_pass

\* C3 witness: the second run has ended on a registry where the first run set
\* a time and left an eligible file, whose previous neighbour is interpolated,
\* without one
C3_Witness ==
    /\ pass = 2
    /\ pc = "interpolate"
    /\ photo_ind > Len(sorted_photos)
    /\ \E i \in 1..Len(sorted_photos) :
          /\ Eligible(sorted_photos[i])
          /\ photo_times[sorted_photos[i]] = None
          /\ NearestBefore(photo_times, i) # 0
          /\ NearestAfter(photo_times, i) # 0
          /\ IsInterpolated(photo_times[sorted_photos[NearestBefore(photo_times, i)]])

\* C4: every copy of a file that has a time is named <canonicalString>.<ext>,
\* canonicalString in the form YYYY-MM-DD_HH:MM:SS, without the suffix marker.
C4_NameIsCanonical ==
    \A c \in copies :
        (c.src \in DOMAIN photo_times /\ photo_times[c.src] # None)
            => /\ Len(c.name) = 19 + 1 + Len(get_extension_from_path(c.src))
               /\ CanStrptime(SubSeq(c.name, 1, 19))
               /\ From(c.name, 19) = <<".">> \o get_extension_from_path(c.src)

\* C5: a photo whose metadata raises KeyError or TypeError is registered
\* without a time and the pass goes on to the next entry; a video whose
\* metadata cannot be read ends the run: no registry is left, the
\* interpolation is never entered, nothing is copied, and no step follows.
C5_PhotoRecoveredVideoFatal ==
    /\ [][ (pc = "parse" /\ parse_ind <= Len(listing) /\ listing[parse_ind].is_file) =>
             LET e   == listing[parse_ind]
                 ext == get_extension_from_path(e.name)
             IN  /\ (ext \in _PHOTO_EXTENSIONS /\ e.meta \in {KeyError, TypeError})
                       => /\ pc' = "parse"
                          /\ parse_ind' = parse_ind + 1
                          /\ e.name \in DOMAIN photo_times'
                          /\ photo_times'[e.name] = None
                          /\ \A p \in DOMAIN photo_times :
                                p \in DOMAIN photo_times' /\ photo_times'[p] = photo_times[p]
                 /\ (ext \in _VIDEO_EXTENSIONS /\ e.meta \in Errors)
                       => /\ pc' = "aborted"
                          /\ photo_times' = EmptyRegistry ]_vars
    /\ [][ pc # "aborted" ]_vars
    /\ [](pc = "aborted" => (pass = 0 /\ log = <<>> /\ copies = {}))

\* C5 witness: the run was ended by the video, the fifth entry, after the
\* first entry, a photo raising TypeError, had been passed
C5_Witness ==
    /\ pc = "aborted"
    /\ parse_ind = 6
    /\ listing[1].meta = TypeError
    /\ get_extension_from_path(listing[1].name) \in _PHOTO_EXTENSIONS
    /\ listing[5].meta = FfmpegError
    /\ get_extension_from_path(listing[5].name) \in _VIDEO_EXTENSIONS
    /\ pass = 0
    /\ copies = {}

\* C6: a timestamp formatted the way a synthesized time is stored and parsed
\* the way a neighbour's time is read is the same timestamp, for every offset
\* of the local time zone.
C6_RoundTrip == pc = "returned" => result = arg

\* C7: every registry entry that output placement has handled was copied once:
\* without a time, to without-time/<stem>.<ext>; with a time, into the
\* directory named by the year of its canonical text; so entries with the same
\* canonical time are in the same directory.
C7_RoutedByTime ==
    (pc \in {"save", "done"}) =>
        /\ \A i \in 1..(save_ind - 1) :
              LET p == Items(1)[i]
                  t == photo_times[p]
                  made == {c \in copies : c.src = p}
              IN  /\ Cardinality(made) = 1
                  /\ \A c \in made :
                        IF t = None
                        THEN /\ c.dir = <<WithoutTime>>
                             /\ c.name = PathStem(p) \o <<".">> \o get_extension_from_path(p)
                        ELSE c.dir = <<SubSeq(t, 1, 4)>>
        /\ \A c, d \in copies :
              ( /\ photo_times[c.src] # None
                /\ photo_times[d.src] # None
                /\ Canonical(photo_times[c.src]) = Canonical(photo_times[d.src]) )
                  => c.dir = d.dir

\* C7 witness: placement has ended with a file under without-time, an
\* interpolated file and a known file of the same canonical time in one year
\* directory, and files in two different year directories
C7_Witness ==
    /\ pc = "done"
    /\ \E c \in copies : photo_times[c.src] = None /\ c.dir = <<WithoutTime>>
    /\ \E c, d \in copies :
          /\ IsInterpolated(photo_times[c.src])
          /\ IsKnown(photo_times[d.src])
          /\ Canonical(photo_times[c.src]) = Canonical(photo_times[d.src])
          /\ c.dir = d.dir
    /\ \E c, d \in copies : c.dir = <<Str(2020)>> /\ d.dir = <<Str(2021)>>

\* C8 as stated: an eligible file without a time is left without one exactly
\* when it has no previous neighbour, or no next neighbour, or
\* nextTs - 1 < prevTs + 1.
C8_AbsentIffNoNeighbourOrNoRoom ==
    [][ Candidate =>
          ( photo_times'[Cur] = None <=>
              IF NearestBefore(photo_times, photo_ind) = 0 THEN TRUE
              ELSE IF NearestAfter(photo_times, photo_ind) = 0 THEN TRUE
              ELSE Ts(NextOfCur) - 1 < Ts(PrevOfCur) + 1 ) ]_vars

\* C8 as amended: an eligible file without a time, whose neighbours' times are
\* well-formed, is left without one exactly when it has no previous neighbour,
\* or no next neighbour, or nextTs - 2 < prevTs + 2, the pool
\* [prevTs + 2, nextTs - 2] being empty; otherwise it receives a time.
C8_AbsentIffNoNeighbourOrEmptyPool ==
    [][ Candidate =>
          ( photo_times'[Cur] = None <=>
              IF NearestBefore(photo_times, photo_ind) = 0 THEN TRUE
              ELSE IF NearestAfter(photo_times, photo_ind) = 0 THEN TRUE
              ELSE /\ CanStrptime(Canonical(PrevOfCur))
                   /\ CanStrptime(NextOfCur)
                   /\ Ts(NextOfCur) - 2 < Ts(PrevOfCur) + 2 ) ]_vars

\* C8 witness: the last file handled is eligible, has both neighbours with
\* nextTs - 1 >= prevTs + 1, and was left without a time
C8_Witness ==
    /\ pc = "interpolate"
    /\ photo_ind > 1
    /\ LET i == photo_ind - 1
       IN  /\ Eligible(sorted_photos[i])
           /\ photo_times[sorted_photos[i]] = None
           /\ NearestBefore(photo_times, i) # 0
           /\ NearestAfter(photo_times, i) # 0
           /\ Ts(photo_times[sorted_photos[NearestAfter(photo_times, i)]]) - 1
                >= Ts(photo_times[sorted_photos[NearestBefore(photo_times, i)]]) + 1
    /\ log # <<>>
    /\ log[Len(log)].event = "no_time"

C10_ValidOnlyIfBeginsWithPrefix ==
    (pc = "returned" /\ result = TRUE) =>
        LET stem == PathStem(arg)
        IN  /\ StartsWith(stem, _COMMON_INTERPOLATION_PREFIX)
            /\ IntParses(Split(From(stem, Len(_COMMON_INTERPOLATION_PREFIX)), <<".">>)[1])

====
